---- MODULE Spec2Model ----
(***************************************************************************)
(* Model of the mail-transfer core of smtp-client-server-gui:              *)
(*   - the address checks and the address <-> mailbox-directory codec      *)
(*     (smtp_server.py validate_email / deliver_to_mailbox line 120,       *)
(*      smtp_gui.py refresh_mailbox line 409),                             *)
(*   - CustomSMTPHandler.handle_DATA and deliver_to_mailbox, one process   *)
(*     per inbound message, interleaved at the file-system calls.          *)
(* Strings are sequences of one-character strings, so that replace() and   *)
(* split() are computed character by character as Python computes them.    *)
(***************************************************************************)
EXTENDS Integers, Sequences, FiniteSets, TLC

VARIABLES
    \* ---- address codec (pure functions applied to a drawn address) ----
    cstage,     \* "off" | "input" | "validated" | "encoded" | "decoded"
    caddr,      \* the address under test
    cvalid,     \* result of validate_email(caddr)
    cid,        \* recipient_safe computed from caddr
    cback,      \* address the mailbox viewer shows for directory cid
    \* ---- delivery engine ----
    pc,         \* position of each handle_DATA invocation
    envelope,   \* envelope handed to each invocation
    subject,    \* subject extracted by the parser (line 67)
    idx,        \* position of the for loop of line 76 in rcpt_tos
    timestamp,  \* local variable timestamp of deliver_to_mailbox (line 127)
    metadata,   \* local variable metadata of deliver_to_mailbox (line 136)
    status,     \* value returned by handle_DATA
    error,      \* exception caught at line 89, as logged at line 90
    savedLog,   \* "Email saved to"/"Email delivered to" log lines, per invocation
    invalidLog, \* "Invalid recipient email address" log lines, per invocation
    dirs,       \* mailbox directories that exist under mailboxes/
    listing,    \* files that exist (directory entries)
    bytes,      \* content of each file
    clock,      \* value datetime.now() returns at this instant
    faults,     \* storage failures injected so far
    \* ---- mailbox reader (SMTPLabGUI.load_emails) ----
    rstage,     \* "off" | "loading" | "loaded" | "shown" | "failed"
    rdir,       \* os.listdir(mailbox_path): the files, in the order listed
    rpos,       \* position of the for loop of line 437
    emails,     \* the list emails of load_emails
    rows,       \* rows of email_tree, top to bottom
    \* ---- outbound path (SMTPClient.send_email) ----
    spc,        \* position of send_email
    sender,     \* argument sender
    recipients, \* argument recipients
    attachments,\* argument attachments
    vpos,       \* position of the for loop of line 129
    apos,       \* position of the for loop of line 70
    msg,        \* the parts attached to msg so far, in order
    warnings,   \* "Attachment file not found" log lines
    reads,      \* attachment files opened so far
    transports, \* calls made to the transport (smtplib.SMTP + sendmail)
    outcome,    \* how the transport call ended
    raised,     \* the exception raised in send_email, as logged
    result,     \* what send_email returned: "True", "False"; "raised" if an
                \* exception left it
    \* ---- server life cycle in the GUI (SMTPLabGUI.start_server/stop_server) ----
    gpc,               \* position of the GUI thread
    server_running,    \* self.server_running
    server_controller, \* self.server_controller: 0 for None, else a controller
    server_status,     \* the text of self.server_status
    start_btn,         \* state of self.start_btn
    stop_btn,          \* state of self.stop_btn
    tpc,               \* position of each run_server thread
    ctrl,              \* state of each Controller object
    port_busy,         \* whether another process listens on host:port
    dialogs,           \* messagebox.showerror calls made so far
    \* ---- mailbox selection in the viewer (refresh_mailbox, load_emails) ----
    vstage,     \* "off" | "listed" | "selected" | "resolved"
    vdir,       \* the directory os.listdir('mailboxes') returned
    vmailbox,   \* the entry of mailbox_combo, as mailbox_var.get() returns it
    vsafe,      \* local variable mailbox_safe of load_emails
    vfound      \* os.path.exists(mailbox_path): "none" | "yes" | "no"

codecVars == <<cstage, caddr, cvalid, cid, cback>>
engineVars == <<pc, envelope, subject, idx, timestamp, metadata, status, error,
                savedLog, invalidLog, dirs, listing, bytes, clock, faults>>
readerVars == <<rstage, rdir, rpos, emails, rows>>
clientVars == <<spc, sender, recipients, attachments, vpos, apos, msg, warnings,
                reads, transports, outcome, raised, result>>
guiVars == <<gpc, server_running, server_controller, server_status, start_btn,
             stop_btn, tpc, ctrl, port_busy, dialogs>>
viewerVars == <<vstage, vdir, vmailbox, vsafe, vfound>>
vars == <<cstage, caddr, cvalid, cid, cback,
          pc, envelope, subject, idx, timestamp, metadata, status, error,
          savedLog, invalidLog, dirs, listing, bytes, clock, faults,
          rstage, rdir, rpos, emails, rows,
          spc, sender, recipients, attachments, vpos, apos, msg, warnings,
          reads, transports, outcome, raised, result,
          gpc, server_running, server_controller, server_status, start_btn,
          stop_btn, tpc, ctrl, port_busy, dialogs,
          vstage, vdir, vmailbox, vsafe, vfound>>

\* what the engine's steps, and the codec's, leave alone
besideEngine == <<codecVars, readerVars, clientVars, guiVars, viewerVars>>
besideCodec == <<engineVars, readerVars, clientVars, guiVars, viewerVars>>
besideReader == <<codecVars, engineVars, clientVars, guiVars, viewerVars>>
besideClient == <<codecVars, engineVars, readerVars, guiVars, viewerVars>>
besideGui == <<codecVars, engineVars, readerVars, clientVars, viewerVars>>
besideViewer == <<codecVars, engineVars, readerVars, clientVars, guiVars>>

-----------------------------------------------------------------------------
\* Bounds of the model.

\* longest address drawn for the codec checks
MaxLen == 5
\* number of handle_DATA invocations (inbound messages)
NumHandlers == 2
\* longest recipient list of an envelope
MaxRcpts == 2
\* largest value of the clock (it starts at 1)
MaxClock == 2
\* number of storage failures the environment may inject
MaxFaults == 1
\* clock values per second: the clock value t is the instant
\* (t \div TicksPerSecond) seconds, (t % TicksPerSecond) microseconds
TicksPerSecond == 2
\* largest number of files in the directory the mailbox viewer lists
MaxDirFiles == 3
\* longest attachment list given to send_email
MaxAttach == 3
\* most clicks on "Start Server" (run_server threads, Controller objects)
MaxStarts == 2
\* most clicks on "Start Server" with a port that is not a number
MaxDialogs == 2

-----------------------------------------------------------------------------
\* Python string primitives on sequences of characters.

\* c in s
contains(c, s) == \E i \in 1..Len(s) : s[i] = c

\* s.count(c)
count(c, s) == Cardinality({i \in 1..Len(s) : s[i] = c})

\* s.find(c) + 1 for a character c that occurs in s
find(c, s) == CHOOSE i \in 1..Len(s) : s[i] = c /\ \A j \in 1..(i - 1) : s[j] # c

\* s.split(c): the list of the segments between the occurrences of c
RECURSIVE split(_, _)
split(s, c) ==
    IF ~contains(c, s) THEN <<s>>
    ELSE <<SubSeq(s, 1, find(c, s) - 1)>> \o split(SubSeq(s, find(c, s) + 1, Len(s)), c)

\* s.replace(old, new): leftmost, non-overlapping occurrences of old
RECURSIVE replace(_, _, _)
replace(s, old, new) ==
    IF Len(s) < Len(old) THEN s
    ELSE IF SubSeq(s, 1, Len(old)) = old
         THEN new \o replace(SubSeq(s, Len(old) + 1, Len(s)), old, new)
         ELSE <<Head(s)>> \o replace(Tail(s), old, new)

\* s.rsplit(c, 1)[1]: the part after the last c, for s that contains c
RECURSIVE afterLast(_, _)
afterLast(s, c) ==
    IF ~contains(c, s) THEN s ELSE afterLast(SubSeq(s, find(c, s) + 1, Len(s)), c)

\* a < b for Python strings, given as sequences of code points: the first
\* differing character decides, and a proper prefix is the smaller string
RECURSIVE str_lt(_, _)
str_lt(a, b) ==
    IF b = <<>> THEN FALSE
    ELSE IF a = <<>> THEN TRUE
    ELSE IF Head(a) # Head(b) THEN Head(a) < Head(b)
    ELSE str_lt(Tail(a), Tail(b))

\* datetime.isoformat() of the instant t, as code points ('.' is 46, '0' is 48):
\* the seconds, then '.' and the microseconds unless these are 0. (The fields
\* before the seconds are the same for all the instants of the model.)
isoformat(t) ==
    IF t % TicksPerSecond = 0 THEN <<48 + (t \div TicksPerSecond)>>
    ELSE <<48 + (t \div TicksPerSecond), 46, 48 + (t % TicksPerSecond)>>

\* d.get(k, default) of a dict d
get(d, k, default) == IF k \in DOMAIN d THEN d[k] ELSE default

-----------------------------------------------------------------------------
\* Address validation and the mailbox-directory codec.

\* smtp_server.py 103-105, smtp_client.py 171-173 (the same code)
validate_email(email) ==
    /\ contains("@", email)
    /\ contains(".", split(email, "@")[2])

\* smtp_server.py 120: recipient.replace('@', '_at_').replace('.', '_')
recipient_safe(recipient) ==
    replace(replace(recipient, <<"@">>, <<"_", "a", "t", "_">>), <<".">>, <<"_">>)

\* smtp_gui.py 409: d.replace('_at_', '@').replace('_', '.')
mailbox_name(d) ==
    replace(replace(d, <<"_", "a", "t", "_">>, <<"@">>), <<"_">>, <<".">>)

\* the EmailAddress contract of the data model: exactly one '@', and a '.' in
\* the part after the last '@'
EmailAddressContract(s) ==
    /\ count("@", s) = 1
    /\ contains(".", afterLast(s, "@"))

Alphabet == {"a", "t", ".", "@", "_"}

Strings == UNION {[1..n -> Alphabet] : n \in 0..MaxLen}

-----------------------------------------------------------------------------
\* The codec applied to one drawn address: validate, encode, decode.

Validate ==
    /\ cstage = "input"
    /\ cvalid' = validate_email(caddr)
    /\ cstage' = "validated"
    /\ UNCHANGED <<caddr, cid, cback>>
    /\ UNCHANGED besideCodec

\* handle_DATA encodes only the recipients that passed validate_email (77-78)
Encode ==
    /\ cstage = "validated"
    /\ cvalid
    /\ cid' = recipient_safe(caddr)
    /\ cstage' = "encoded"
    /\ UNCHANGED <<caddr, cvalid, cback>>
    /\ UNCHANGED besideCodec

\* refresh_mailbox decodes the directory names it lists
Decode ==
    /\ cstage = "encoded"
    /\ cback' = mailbox_name(cid)
    /\ cstage' = "decoded"
    /\ UNCHANGED <<caddr, cvalid, cid>>
    /\ UNCHANGED besideCodec

-----------------------------------------------------------------------------
\* The delivery engine: envelopes, the file system, the clock.

Handlers == 1..NumHandlers

RcptB == <<"b", "@", "y", ".", "c">>
RcptC == <<"c", "@", "y", ".", "c">>
RcptBad == <<"n", "o">>

Pool == {RcptB, RcptC, RcptBad}

RcptLists == UNION {[1..n -> Pool] : n \in 0..MaxRcpts}

\* envelope.content of invocation h: the bytes are distinct per message (id);
\* parses tells whether lines 64-70 raise on them; subject is the Subject header,
\* "" when the message has none
\* the From: header the composer wrote, which need not be the envelope sender
HeaderFrom == "h@x.c"

Contents(h) ==
    {[id |-> h, parses |-> TRUE, subject |-> s, From |-> HeaderFrom] : s \in {"Hi", ""}}
        \cup {[id |-> h, parses |-> FALSE, subject |-> "", From |-> HeaderFrom]}

Envelopes(h) ==
    {[mail_from |-> "s@x.c", rcpt_tos |-> r, content |-> c] :
        r \in RcptLists, c \in Contents(h)}

NoEnvelope == [mail_from |-> "", rcpt_tos |-> <<>>,
               content |-> [id |-> 0, parses |-> FALSE, subject |-> "", From |-> ""]]

\* a file name: f"email_{timestamp}.eml" or f"metadata_{timestamp}.json".
\* strftime('%Y%m%d_%H%M%S_%f') prints every field of the datetime, down to the
\* microsecond, so two names are equal exactly when the clock values are.
email_filename(t) == [kind |-> "email", stamp |-> t]
metadata_filename(t) == [kind |-> "metadata", stamp |-> t]

\* os.path.join(recipient_mailbox, name)
path(d, name) == [dir |-> d, name |-> name]

DirNames == {recipient_safe(r) : r \in Pool}

FileNames == {email_filename(t) : t \in 1..MaxClock}
                 \cup {metadata_filename(t) : t \in 1..MaxClock}

Paths == {path(d, n) : d \in DirNames, n \in FileNames}

NoMetadata == [timestamp |-> <<>>, from |-> "", to |-> <<>>, subject |-> "",
               filename |-> email_filename(0)]

\* CustomSMTPHandler.__init__: an empty mailboxes/ directory, no message yet
EngineInit ==
    /\ pc = [h \in Handlers |-> "idle"]
    /\ envelope = [h \in Handlers |-> NoEnvelope]
    /\ subject = [h \in Handlers |-> ""]
    /\ idx = [h \in Handlers |-> 0]
    /\ timestamp = [h \in Handlers |-> 0]
    /\ metadata = [h \in Handlers |-> NoMetadata]
    /\ status = [h \in Handlers |-> ""]
    /\ error = [h \in Handlers |-> "none"]
    /\ savedLog = [h \in Handlers |-> <<>>]
    /\ invalidLog = [h \in Handlers |-> <<>>]
    /\ dirs = {}
    /\ listing = {}
    /\ bytes = [p \in Paths |-> <<>>]
    /\ clock = 1
    /\ faults = 0

\* the codec checks are not running
CodecOff ==
    /\ cstage = "off"
    /\ caddr = <<>>
    /\ cvalid = FALSE
    /\ cid = <<>>
    /\ cback = <<>>

\* the mailbox viewer is not running
ReaderOff ==
    /\ rstage = "off"
    /\ rdir = <<>>
    /\ rpos = 0
    /\ emails = <<>>
    /\ rows = <<>>

NoError == [kind |-> "none", value |-> <<>>]

\* send_email is not running
ClientOff ==
    /\ spc = "off"
    /\ sender = <<>>
    /\ recipients = <<>>
    /\ attachments = <<>>
    /\ vpos = 0
    /\ apos = 0
    /\ msg = <<>>
    /\ warnings = <<>>
    /\ reads = <<>>
    /\ transports = 0
    /\ outcome = "none"
    /\ raised = NoError
    /\ result = "none"

\* run_server threads, and the Controller each of them creates
Threads == 1..MaxStarts

\* the window is not open
GuiOff ==
    /\ gpc = "off"
    /\ server_running = FALSE
    /\ server_controller = 0
    /\ server_status = ""
    /\ start_btn = ""
    /\ stop_btn = ""
    /\ tpc = [t \in Threads |-> "unborn"]
    /\ ctrl = [c \in Threads |-> "none"]
    /\ port_busy = FALSE
    /\ dialogs = 0

\* no mailbox list is shown
ViewerOff ==
    /\ vstage = "off"
    /\ vdir = <<>>
    /\ vmailbox = <<>>
    /\ vsafe = <<>>
    /\ vfound = "none"

Init ==
    /\ CodecOff
    /\ EngineInit
    /\ ReaderOff
    /\ ClientOff
    /\ GuiOff
    /\ ViewerOff

\* the codec checks: an address is drawn from the bounded set of strings
CodecInit ==
    /\ cstage = "input"
    /\ caddr \in Strings
    /\ cvalid = FALSE
    /\ cid = <<>>
    /\ cback = <<>>
    /\ EngineInit
    /\ ReaderOff
    /\ ClientOff
    /\ GuiOff
    /\ ViewerOff

\* the recipient the loop of line 76 is at
recipient(h) == envelope[h].rcpt_tos[idx[h]]

\* line 121 (the directory, below mailboxes/)
recipient_mailbox(h) == recipient_safe(recipient(h))

\* line 129
email_path(h) == path(recipient_mailbox(h), email_filename(timestamp[h]))

\* line 144
metadata_path(h) == path(recipient_mailbox(h), metadata_filename(timestamp[h]))

\* lines 89-91: the exception is logged and '550' returned
Raise(h, e) ==
    /\ error' = [error EXCEPT ![h] = e]
    /\ status' = [status EXCEPT ![h] = "550 Error processing message"]
    /\ pc' = [pc EXCEPT ![h] = "done"]
    /\ timestamp' = [timestamp EXCEPT ![h] = 0]
    /\ metadata' = [metadata EXCEPT ![h] = NoMetadata]

\* a handler that rejects the message when it delivered to no recipient
accepted_status_unless_none(h) ==
    IF savedLog[h] = <<>> THEN "550 Error processing message"
    ELSE "250 Message accepted for delivery"

\* line 87
accepted_status(h) == "250 Message accepted for delivery"

\* a loop that stops at the first invalid recipient (a break in the else branch)
after_invalid_break(h) == Len(envelope[h].rcpt_tos) + 1

\* where the loop goes after an invalid recipient (81-83: log, next iteration)
after_invalid(h) == idx[h] + 1

\* lines 50-73: read the envelope, parse the content, extract the subject
handle_DATA(h) ==
    /\ pc[h] = "idle"
    /\ \E env \in Envelopes(h) :
        /\ envelope' = [envelope EXCEPT ![h] = env]
        /\ IF env.content.parses
           THEN /\ subject' = [subject EXCEPT ![h] =
                        IF env.content.subject = "" THEN "No Subject"
                        ELSE env.content.subject]
                /\ idx' = [idx EXCEPT ![h] = 1]
                /\ pc' = [pc EXCEPT ![h] = "loop"]
                /\ UNCHANGED <<status, error, timestamp, metadata>>
           ELSE /\ Raise(h, "parse")
                /\ UNCHANGED <<subject, idx>>
    /\ UNCHANGED <<savedLog, invalidLog, dirs, listing, bytes, clock, faults>>
    /\ UNCHANGED besideEngine

\* lines 76-78: a valid recipient, deliver_to_mailbox is entered
loop_valid(h) ==
    /\ pc[h] = "loop"
    /\ idx[h] <= Len(envelope[h].rcpt_tos)
    /\ validate_email(recipient(h))
    /\ pc' = [pc EXCEPT ![h] = "exists"]
    /\ UNCHANGED <<envelope, subject, idx, timestamp, metadata, status, error,
                   savedLog, invalidLog, dirs, listing, bytes, clock, faults>>
    /\ UNCHANGED besideEngine

\* lines 76-77, 81-83: an invalid recipient is logged
loop_invalid(h) ==
    /\ pc[h] = "loop"
    /\ idx[h] <= Len(envelope[h].rcpt_tos)
    /\ ~validate_email(recipient(h))
    /\ invalidLog' = [invalidLog EXCEPT ![h] = Append(@, recipient(h))]
    /\ idx' = [idx EXCEPT ![h] = after_invalid(h)]
    /\ UNCHANGED <<pc, envelope, subject, timestamp, metadata, status, error,
                   savedLog, dirs, listing, bytes, clock, faults>>
    /\ UNCHANGED besideEngine

\* lines 85-87: the loop is over
loop_end(h) ==
    /\ pc[h] = "loop"
    /\ idx[h] > Len(envelope[h].rcpt_tos)
    /\ status' = [status EXCEPT ![h] = accepted_status(h)]
    /\ pc' = [pc EXCEPT ![h] = "done"]
    /\ UNCHANGED <<envelope, subject, idx, timestamp, metadata, error,
                   savedLog, invalidLog, dirs, listing, bytes, clock, faults>>
    /\ UNCHANGED besideEngine

\* line 123: os.path.exists(recipient_mailbox)
path_exists(h) ==
    /\ pc[h] = "exists"
    /\ pc' = [pc EXCEPT ![h] =
                IF recipient_mailbox(h) \in dirs THEN "stamp" ELSE "makedirs"]
    /\ UNCHANGED <<envelope, subject, idx, timestamp, metadata, status, error,
                   savedLog, invalidLog, dirs, listing, bytes, clock, faults>>
    /\ UNCHANGED besideEngine

\* line 124: os.makedirs(recipient_mailbox), which raises FileExistsError when
\* the directory exists by now
makedirs(h) ==
    /\ pc[h] = "makedirs"
    /\ IF recipient_mailbox(h) \in dirs
       THEN /\ Raise(h, "storage")
            /\ UNCHANGED dirs
       ELSE /\ dirs' = dirs \cup {recipient_mailbox(h)}
            /\ pc' = [pc EXCEPT ![h] = "stamp"]
            /\ UNCHANGED <<timestamp, metadata, status, error>>
    /\ UNCHANGED <<envelope, subject, idx, savedLog, invalidLog, listing, bytes,
                   clock, faults>>
    /\ UNCHANGED besideEngine

\* line 127: timestamp = datetime.now().strftime(...)
stamp(h) ==
    /\ pc[h] = "stamp"
    /\ timestamp' = [timestamp EXCEPT ![h] = clock]
    /\ pc' = [pc EXCEPT ![h] = "open_eml"]
    /\ UNCHANGED <<envelope, subject, idx, metadata, status, error,
                   savedLog, invalidLog, dirs, listing, bytes, clock, faults>>
    /\ UNCHANGED besideEngine

\* line 132: open(email_path, 'wb') creates the file or truncates it
open_eml(h) ==
    /\ pc[h] = "open_eml"
    /\ listing' = listing \cup {email_path(h)}
    /\ bytes' = [bytes EXCEPT ![email_path(h)] = <<>>]
    /\ pc' = [pc EXCEPT ![h] = "write_eml"]
    /\ UNCHANGED <<envelope, subject, idx, timestamp, metadata, status, error,
                   savedLog, invalidLog, dirs, clock, faults>>
    /\ UNCHANGED besideEngine

\* line 133: f.write(raw_data), flushed when the with block closes the file
write_eml(h) ==
    /\ pc[h] = "write_eml"
    /\ bytes' = [bytes EXCEPT ![email_path(h)] = <<envelope[h].content>>]
    /\ pc' = [pc EXCEPT ![h] = "build_metadata"]
    /\ UNCHANGED <<envelope, subject, idx, timestamp, metadata, status, error,
                   savedLog, invalidLog, dirs, listing, clock, faults>>
    /\ UNCHANGED besideEngine

\* a record whose 'from' is taken from the From: header of the parsed message
metadata_from_header(h) == envelope[h].content.From

\* lines 78 and 138: 'from' is the sender argument, which is mailfrom
metadata_from(h) == envelope[h].mail_from

\* lines 136-142: the metadata dict, with a second reading of the clock
build_metadata(h) ==
    /\ pc[h] = "build_metadata"
    /\ metadata' = [metadata EXCEPT ![h] =
            [timestamp |-> isoformat(clock),
             from |-> metadata_from(h),
             to |-> recipient(h),
             subject |-> subject[h],
             filename |-> email_filename(timestamp[h])]]
    /\ pc' = [pc EXCEPT ![h] = "open_metadata"]
    /\ UNCHANGED <<envelope, subject, idx, timestamp, status, error,
                   savedLog, invalidLog, dirs, listing, bytes, clock, faults>>
    /\ UNCHANGED besideEngine

\* line 145: open(metadata_path, 'w') creates the file or truncates it
open_metadata(h) ==
    /\ pc[h] = "open_metadata"
    /\ listing' = listing \cup {metadata_path(h)}
    /\ bytes' = [bytes EXCEPT ![metadata_path(h)] = <<>>]
    /\ pc' = [pc EXCEPT ![h] = "write_metadata"]
    /\ UNCHANGED <<envelope, subject, idx, timestamp, metadata, status, error,
                   savedLog, invalidLog, dirs, clock, faults>>
    /\ UNCHANGED besideEngine

\* lines 146-148 and 79-80: json.dump, then the two log lines, and the loop
\* goes on with the next recipient
write_metadata(h) ==
    /\ pc[h] = "write_metadata"
    /\ bytes' = [bytes EXCEPT ![metadata_path(h)] = <<metadata[h]>>]
    /\ savedLog' = [savedLog EXCEPT ![h] =
            Append(@, [to |-> recipient(h), dir |-> recipient_mailbox(h),
                       filename |-> email_filename(timestamp[h])])]
    /\ idx' = [idx EXCEPT ![h] = idx[h] + 1]
    /\ pc' = [pc EXCEPT ![h] = "loop"]
    /\ timestamp' = [timestamp EXCEPT ![h] = 0]
    /\ metadata' = [metadata EXCEPT ![h] = NoMetadata]
    /\ UNCHANGED <<envelope, subject, status, error, invalidLog, dirs, listing,
                   clock, faults>>
    /\ UNCHANGED besideEngine

\* lines 150-152 and 89-91: a file-system call of deliver_to_mailbox raises
\* (permissions, disk full); the exception is logged, re-raised, and caught by
\* handle_DATA
storage_raises(h) ==
    /\ pc[h] \in {"makedirs", "open_eml", "write_eml", "open_metadata", "write_metadata"}
    /\ faults < MaxFaults
    /\ faults' = faults + 1
    /\ Raise(h, "storage")
    /\ UNCHANGED <<envelope, subject, idx, savedLog, invalidLog, dirs, listing,
                   bytes, clock>>
    /\ UNCHANGED besideEngine

\* time passes: the next datetime.now() returns a later value
Tick ==
    /\ clock < MaxClock
    /\ clock' = clock + 1
    /\ UNCHANGED <<pc, envelope, subject, idx, timestamp, metadata, status, error,
                   savedLog, invalidLog, dirs, listing, bytes, faults>>
    /\ UNCHANGED besideEngine

Next ==
    \/ \E h \in Handlers : handle_DATA(h)
    \/ \E h \in Handlers : loop_valid(h)
    \/ \E h \in Handlers : loop_invalid(h)
    \/ \E h \in Handlers : loop_end(h)
    \/ \E h \in Handlers : path_exists(h)
    \/ \E h \in Handlers : makedirs(h)
    \/ \E h \in Handlers : stamp(h)
    \/ \E h \in Handlers : open_eml(h)
    \/ \E h \in Handlers : write_eml(h)
    \/ \E h \in Handlers : build_metadata(h)
    \/ \E h \in Handlers : open_metadata(h)
    \/ \E h \in Handlers : write_metadata(h)
    \/ \E h \in Handlers : storage_raises(h)
    \/ Tick

Spec == Init /\ [][Next]_vars

CodecNext == Validate \/ Encode \/ Decode

CodecSpec == CodecInit /\ [][CodecNext]_vars

-----------------------------------------------------------------------------
\* The mailbox viewer, SMTPLabGUI.load_emails, on one mailbox directory.

\* a file of the directory: its name, whether json.load can parse it, and the
\* dict json.load returns
File(name, parses, d) == [name |-> name, parses |-> parses, dict |-> d]

\* what deliver_to_mailbox writes: metadata_<s>.json, built at the instant t >= s
MetadataFiles ==
    {File(metadata_filename(s), TRUE,
          [timestamp |-> isoformat(t), from |-> "s@x.c", to |-> RcptB,
           subject |-> "Hi", filename |-> email_filename(s)]) :
        s \in 1..MaxClock, t \in 1..MaxClock}

\* what else a directory may hold: a content file, a JSON file that is no
\* metadata record (notes.json), a file that is not valid JSON (broken.json)
OtherFiles ==
    {File(email_filename(1), FALSE, [note |-> ""]),
     File([kind |-> "notes", stamp |-> 0], TRUE, [note |-> "n"]),
     File([kind |-> "broken", stamp |-> 0], FALSE, [note |-> ""])}

\* file.endswith('.json') (line 438)
ends_with_json(name) == name.kind \in {"metadata", "notes", "broken"}

\* the name has the form metadata_<timestamp>.json
is_metadata_name(name) == name.kind = "metadata"

\* the directories drawn: up to MaxDirFiles files with distinct names, in any order
Directories ==
    {d \in UNION {[1..n -> MetadataFiles \cup OtherFiles] : n \in 0..MaxDirFiles} :
        /\ \A i, j \in 1..Len(d) : i # j => d[i].name # d[j].name
        /\ \A i \in 1..Len(d) :
            is_metadata_name(d[i].name) =>
                \A c \in 1..MaxClock :
                    d[i].dict.timestamp = isoformat(c) => c >= d[i].name.stamp}

\* the sort key of line 444
sort_key(x) == get(x, "timestamp", <<>>)

\* one step of list.sort(key=..., reverse=True): the sort is stable, so x goes
\* behind every element whose key is not smaller than its own
RECURSIVE insert_desc(_, _)
insert_desc(sorted, x) ==
    IF sorted = <<>> THEN <<x>>
    ELSE IF str_lt(sort_key(Head(sorted)), sort_key(x)) THEN <<x>> \o sorted
    ELSE <<Head(sorted)>> \o insert_desc(Tail(sorted), x)

RECURSIVE sort_into(_, _)
sort_into(sorted, rest) ==
    IF rest = <<>> THEN sorted
    ELSE sort_into(insert_desc(sorted, Head(rest)), Tail(rest))

\* emails.sort(key=lambda x: x.get('timestamp', ''), reverse=True)
sort_newest_first(s) == sort_into(<<>>, s)

NoTag == [kind |-> "", stamp |-> 0]

\* s[:19]
first19(s) == IF Len(s) <= 19 THEN s ELSE SubSeq(s, 1, 19)

\* lines 448-452: the row inserted for one dict
tree_row(x) ==
    [from |-> get(x, "from", "Unknown"),
     subject |-> get(x, "subject", "No Subject"),
     timestamp |-> first19(get(x, "timestamp", <<>>)),
     tag |-> get(x, "filename", NoTag)]

ReaderInit ==
    /\ CodecOff
    /\ EngineInit
    /\ ClientOff
    /\ GuiOff
    /\ ViewerOff
    /\ rstage = "loading"
    /\ rdir \in Directories
    /\ rpos = 1
    /\ emails = <<>>
    /\ rows = <<>>

\* lines 437-438: a file whose name does not end in '.json' is passed over
load_skip ==
    /\ rstage = "loading"
    /\ rpos <= Len(rdir)
    /\ ~ends_with_json(rdir[rpos].name)
    /\ rpos' = rpos + 1
    /\ UNCHANGED <<rstage, rdir, emails, rows>>
    /\ UNCHANGED besideReader

\* lines 438-441: a '.json' file is opened and parsed; json.load raises on a
\* file that is not JSON, and nothing in load_emails catches it
load_json ==
    /\ rstage = "loading"
    /\ rpos <= Len(rdir)
    /\ ends_with_json(rdir[rpos].name)
    /\ IF rdir[rpos].parses
       THEN /\ emails' = Append(emails, rdir[rpos].dict)
            /\ rpos' = rpos + 1
            /\ UNCHANGED rstage
       ELSE /\ rstage' = "failed"
            /\ UNCHANGED <<emails, rpos>>
    /\ UNCHANGED <<rdir, rows>>
    /\ UNCHANGED besideReader

\* lines 444-452: the list is sorted and shown
load_show ==
    /\ rstage = "loading"
    /\ rpos > Len(rdir)
    /\ emails' = sort_newest_first(emails)
    /\ rows' = [i \in 1..Len(emails) |-> tree_row(sort_newest_first(emails)[i])]
    /\ rstage' = "shown"
    /\ UNCHANGED <<rdir, rpos>>
    /\ UNCHANGED besideReader

ReaderNext == load_skip \/ load_json \/ load_show

ReaderSpec == ReaderInit /\ [][ReaderNext]_vars

-----------------------------------------------------------------------------
\* The outbound path: SMTPClient.send_email, create_email, _attach_file.

SenderGood == <<"a", "@", "x", ".", "c">>
SenderBad == <<"a", "x">>

\* attachment paths, as lists of path segments, and what is at each of them
PathA == <<"tmp", "a.txt">>
PathB == <<"tmp", "b.txt">>
PathMissing == <<"missing", "file.txt">>
PathDir == <<"tmp">>
PathLocked == <<"tmp", "locked.bin">>

AttachPaths == {PathA, PathB, PathMissing, PathDir, PathLocked}

\* os.path.exists(file_path): true of files and of directories
os_path_exists(file_path) == file_path # PathMissing

\* open(file_path, 'rb') succeeds: a regular file the process may read
open_succeeds(file_path) == file_path \in {PathA, PathB}

\* os.path.basename(file_path)
basename(file_path) == file_path[Len(file_path)]

\* line 66: MIMEText(body, 'plain')
body_part == [type |-> "text/plain", filename |-> "", payload |-> <<"body">>]

\* lines 93-98: the octet-stream part for a file, base64-encoded, named by its
\* base name
file_part(file_path) ==
    [type |-> "application/octet-stream", filename |-> basename(file_path),
     payload |-> <<"base64", file_path>>]

\* a message whose newest part is put in front of the others
attach_in_front(parts, part) == <<part>> \o parts

\* msg.attach(part): the part is added behind the parts attached before
attach(parts, part) == Append(parts, part)

\* a sender that is never checked
sender_unchecked(s) == TRUE

\* line 126: the check made of the sender
sender_checked(s) == validate_email(s)

\* a send_email whose only except clause is the one for smtplib.SMTPException
caught_smtp_only(kind) == kind = "SMTPException"

\* lines 151-159: SMTPException is caught by the first clause, every other
\* Exception by the second
caught(kind) == kind \in {"SMTPException", "ValueError", "OSError"}

\* the outcome of send_email when an exception is raised in its try block
Fail(kind, value) ==
    /\ raised' = [kind |-> kind, value |-> value]
    /\ result' = IF caught(kind) THEN "False" ELSE "raised"
    /\ spc' = "done"

ClientInit ==
    /\ CodecOff
    /\ EngineInit
    /\ ReaderOff
    /\ GuiOff
    /\ ViewerOff
    /\ spc = "validate_sender"
    /\ sender \in {SenderGood, SenderBad}
    /\ recipients \in UNION {[1..n -> {RcptB, RcptBad}] : n \in 1..MaxRcpts}
    /\ attachments \in UNION {[1..n -> AttachPaths] : n \in 0..MaxAttach}
    /\ vpos = 1
    /\ apos = 1
    /\ msg = <<>>
    /\ warnings = <<>>
    /\ reads = <<>>
    /\ transports = 0
    /\ outcome = "none"
    /\ raised = NoError
    /\ result = "none"

\* lines 126-127
validate_sender ==
    /\ spc = "validate_sender"
    /\ IF sender_checked(sender)
       THEN /\ spc' = "validate_recipients"
            /\ UNCHANGED <<raised, result>>
       ELSE Fail("ValueError", sender)
    /\ UNCHANGED <<sender, recipients, attachments, vpos, apos, msg, warnings,
                   reads, transports, outcome>>
    /\ UNCHANGED besideClient

\* lines 129-131
validate_recipient ==
    /\ spc = "validate_recipients"
    /\ vpos <= Len(recipients)
    /\ IF validate_email(recipients[vpos])
       THEN /\ vpos' = vpos + 1
            /\ UNCHANGED <<spc, raised, result>>
       ELSE /\ Fail("ValueError", recipients[vpos])
            /\ UNCHANGED vpos
    /\ UNCHANGED <<sender, recipients, attachments, apos, msg, warnings,
                   reads, transports, outcome>>
    /\ UNCHANGED besideClient

\* lines 134, 59-66: create_email is entered, the body is attached
create_email ==
    /\ spc = "validate_recipients"
    /\ vpos > Len(recipients)
    /\ msg' = attach(msg, body_part)
    /\ spc' = "attachments"
    /\ UNCHANGED <<sender, recipients, attachments, vpos, apos, warnings,
                   reads, transports, outcome, raised, result>>
    /\ UNCHANGED besideClient

\* lines 70-72, 91-99: a path that exists is opened and attached; when open
\* raises, _attach_file and create_email log and re-raise (102-104, 79-81)
attach_file ==
    /\ spc = "attachments"
    /\ apos <= Len(attachments)
    /\ os_path_exists(attachments[apos])
    /\ IF open_succeeds(attachments[apos])
       THEN /\ reads' = Append(reads, attachments[apos])
            /\ msg' = attach(msg, file_part(attachments[apos]))
            /\ apos' = apos + 1
            /\ UNCHANGED <<spc, raised, result>>
       ELSE /\ Fail("OSError", attachments[apos])
            /\ UNCHANGED <<reads, msg, apos>>
    /\ UNCHANGED <<sender, recipients, attachments, vpos, warnings,
                   transports, outcome>>
    /\ UNCHANGED besideClient

\* lines 70-74: a path that does not exist is logged and passed over
attach_missing ==
    /\ spc = "attachments"
    /\ apos <= Len(attachments)
    /\ ~os_path_exists(attachments[apos])
    /\ warnings' = Append(warnings, attachments[apos])
    /\ apos' = apos + 1
    /\ UNCHANGED <<spc, sender, recipients, attachments, vpos, msg, reads,
                   transports, outcome, raised, result>>
    /\ UNCHANGED besideClient

\* lines 139-149: the one call to the transport; it succeeds, raises an
\* smtplib.SMTPException, or raises an OSError (connection refused)
sendmail ==
    /\ spc = "attachments"
    /\ apos > Len(attachments)
    /\ transports' = transports + 1
    /\ \E o \in {"ok", "SMTPException", "OSError"} :
        /\ outcome' = o
        /\ IF o = "ok"
           THEN /\ result' = "True"
                /\ spc' = "done"
                /\ UNCHANGED raised
           ELSE Fail(o, <<>>)
    /\ UNCHANGED <<sender, recipients, attachments, vpos, apos, msg, warnings, reads>>
    /\ UNCHANGED besideClient

ClientNext ==
    \/ validate_sender
    \/ validate_recipient
    \/ create_email
    \/ attach_file
    \/ attach_missing
    \/ sendmail

ClientSpec == ClientInit /\ [][ClientNext]_vars

-----------------------------------------------------------------------------
\* The server life cycle in the GUI: start_server and stop_server run on the
\* GUI thread, run_server on a thread of its own; the steps of the two
\* interleave at every access to a field of the window object.

RunningText == "Server Running"
StoppedText == "Server Stopped"

\* SMTPLabGUI.__init__ (lines 27-29) and the widgets of lines 78-87
GuiInit ==
    /\ CodecOff
    /\ EngineInit
    /\ ReaderOff
    /\ ClientOff
    /\ ViewerOff
    /\ gpc = "idle"
    /\ server_running = FALSE
    /\ server_controller = 0
    /\ server_status = StoppedText
    /\ start_btn = "normal"
    /\ stop_btn = "disabled"
    /\ tpc = [t \in Threads |-> "unborn"]
    /\ ctrl = [c \in Threads |-> "none"]
    /\ port_busy \in BOOLEAN
    /\ dialogs = 0

\* the run_server thread the next start_server creates
next_thread == CHOOSE t \in Threads : tpc[t] = "unborn" /\ \A u \in Threads : tpc[u] = "unborn" => t <= u

\* the except clauses of lines 290-291 and 312-313: a dialog, nothing else
showerror ==
    /\ dialogs' = IF dialogs < MaxDialogs THEN dialogs + 1 ELSE dialogs
    /\ gpc' = "idle"

\* lines 258-259, 290-291: the port entered is not a number, int() raises
start_server_bad_port ==
    /\ gpc = "idle"
    /\ start_btn = "normal"
    /\ dialogs < MaxDialogs
    /\ showerror
    /\ UNCHANGED <<server_running, server_controller, server_status, start_btn,
                   stop_btn, tpc, ctrl, port_busy>>
    /\ UNCHANGED besideGui

\* lines 258-276: a click on "Start Server"; the flag is set
start_server ==
    /\ gpc = "idle"
    /\ start_btn = "normal"
    /\ \E t \in Threads : tpc[t] = "unborn"
    /\ server_running' = TRUE
    /\ gpc' = "start_thread"
    /\ UNCHANGED <<server_controller, server_status, start_btn, stop_btn, tpc,
                   ctrl, port_busy, dialogs>>
    /\ UNCHANGED besideGui

\* lines 277-278: the thread is created and started
start_thread ==
    /\ gpc = "start_thread"
    /\ tpc' = [tpc EXCEPT ![next_thread] = "handler"]
    /\ gpc' = "start_ui"
    /\ UNCHANGED <<server_running, server_controller, server_status, start_btn,
                   stop_btn, ctrl, port_busy, dialogs>>
    /\ UNCHANGED besideGui

\* lines 281-284: the buttons and the status text
start_ui ==
    /\ gpc = "start_ui"
    /\ start_btn' = "disabled"
    /\ stop_btn' = "normal"
    /\ server_status' = RunningText
    /\ gpc' = "idle"
    /\ UNCHANGED <<server_running, server_controller, tpc, ctrl, port_busy, dialogs>>
    /\ UNCHANGED besideGui

\* line 296: a click on "Stop Server"; the flag is cleared
stop_server ==
    /\ gpc = "idle"
    /\ stop_btn = "normal"
    /\ server_running' = FALSE
    /\ gpc' = "stop_check"
    /\ UNCHANGED <<server_controller, server_status, start_btn, stop_btn, tpc,
                   ctrl, port_busy, dialogs>>
    /\ UNCHANGED besideGui

\* line 298: if self.server_controller
stop_check ==
    /\ gpc = "stop_check"
    /\ gpc' = IF server_controller # 0 THEN "stop_controller" ELSE "stop_ui"
    /\ UNCHANGED <<server_running, server_controller, server_status, start_btn,
                   stop_btn, tpc, ctrl, port_busy, dialogs>>
    /\ UNCHANGED besideGui

\* line 299: self.server_controller.stop() on a controller that runs
stop_controller ==
    /\ gpc = "stop_controller"
    /\ ctrl[server_controller] = "running"
    /\ ctrl' = [ctrl EXCEPT ![server_controller] = "stopped"]
    /\ gpc' = "stop_clear"
    /\ UNCHANGED <<server_running, server_controller, server_status, start_btn,
                   stop_btn, tpc, port_busy, dialogs>>
    /\ UNCHANGED besideGui

\* line 299 on a controller that does not run (not started yet, failed to
\* start): the library either raises ("SMTP daemon not running"), which ends
\* stop_server at lines 312-313, or returns without effect
stop_controller_not_running ==
    /\ gpc = "stop_controller"
    /\ ctrl[server_controller] # "running"
    /\ \/ /\ showerror
          /\ UNCHANGED <<server_running, server_controller, server_status,
                         start_btn, stop_btn, tpc, ctrl, port_busy>>
       \/ /\ gpc' = "stop_clear"
          /\ UNCHANGED <<server_running, server_controller, server_status,
                         start_btn, stop_btn, tpc, ctrl, port_busy, dialogs>>
    /\ UNCHANGED besideGui

\* line 300
stop_clear ==
    /\ gpc = "stop_clear"
    /\ server_controller' = 0
    /\ gpc' = "stop_ui"
    /\ UNCHANGED <<server_running, server_status, start_btn, stop_btn, tpc,
                   ctrl, port_busy, dialogs>>
    /\ UNCHANGED besideGui

\* lines 303-306
stop_ui ==
    /\ gpc = "stop_ui"
    /\ start_btn' = "normal"
    /\ stop_btn' = "disabled"
    /\ server_status' = StoppedText
    /\ gpc' = "idle"
    /\ UNCHANGED <<server_running, server_controller, tpc, ctrl, port_busy, dialogs>>
    /\ UNCHANGED besideGui

\* lines 263-267 in thread t: the Controller is created and stored
run_server_create(t) ==
    /\ tpc[t] = "handler"
    /\ ctrl' = [ctrl EXCEPT ![t] = "created"]
    /\ server_controller' = t
    /\ tpc' = [tpc EXCEPT ![t] = "start"]
    /\ UNCHANGED <<gpc, server_running, server_status, start_btn, stop_btn,
                   port_busy, dialogs>>
    /\ UNCHANGED besideGui

\* whether a controller can bind the port now
port_free == ~port_busy /\ \A c \in Threads : ctrl[c] # "running"

\* lines 268-270 in thread t: self.server_controller is read again and
\* started. On None the call raises AttributeError, on a running controller
\* and on a taken port start() raises; an exception ends the thread.
run_server_start(t) ==
    /\ tpc[t] = "start"
    /\ IF server_controller = 0
       THEN /\ tpc' = [tpc EXCEPT ![t] = "died"]
            /\ UNCHANGED ctrl
       ELSE IF ctrl[server_controller] = "running"
       THEN /\ tpc' = [tpc EXCEPT ![t] = "died"]
            /\ UNCHANGED ctrl
       ELSE IF port_free
       THEN /\ ctrl' = [ctrl EXCEPT ![server_controller] = "running"]
            /\ tpc' = [tpc EXCEPT ![t] = "wait"]
       ELSE /\ ctrl' = [ctrl EXCEPT ![server_controller] = "failed"]
            /\ tpc' = [tpc EXCEPT ![t] = "died"]
    /\ UNCHANGED <<gpc, server_running, server_controller, server_status,
                   start_btn, stop_btn, port_busy, dialogs>>
    /\ UNCHANGED besideGui

\* lines 273-274 in thread t: the loop ends once the flag is false
run_server_exit(t) ==
    /\ tpc[t] = "wait"
    /\ ~server_running
    /\ tpc' = [tpc EXCEPT ![t] = "exited"]
    /\ UNCHANGED <<gpc, server_running, server_controller, server_status,
                   start_btn, stop_btn, ctrl, port_busy, dialogs>>
    /\ UNCHANGED besideGui

GuiNext ==
    \/ start_server_bad_port
    \/ start_server
    \/ start_thread
    \/ start_ui
    \/ stop_server
    \/ stop_check
    \/ stop_controller
    \/ stop_controller_not_running
    \/ stop_clear
    \/ stop_ui
    \/ \E t \in Threads : run_server_create(t)
    \/ \E t \in Threads : run_server_start(t)
    \/ \E t \in Threads : run_server_exit(t)

GuiSpec == GuiInit /\ [][GuiNext]_vars

-----------------------------------------------------------------------------
\* The mailbox selection of the viewer: refresh_mailbox lists the directories
\* under mailboxes/ and shows each one decoded; load_emails encodes the entry
\* selected and looks for the directory of that name.

\* the directories a delivery can create: the encodings of the valid addresses
DeliveredDirs == {recipient_safe(a) : a \in {b \in Strings : validate_email(b)}}

\* a viewer that encodes only the '@' of the entry selected
mailbox_safe_at_only(mailbox) == replace(mailbox, <<"@">>, <<"_", "a", "t", "_">>)

\* smtp_gui.py 429: mailbox.replace('@', '_at_').replace('.', '_')
mailbox_safe(mailbox) ==
    replace(replace(mailbox, <<"@">>, <<"_", "a", "t", "_">>), <<".">>, <<"_">>)

\* mailboxes/ holds one directory, of any name
ViewerInit ==
    /\ CodecOff
    /\ EngineInit
    /\ ReaderOff
    /\ ClientOff
    /\ GuiOff
    /\ vstage = "listed"
    /\ vdir \in (Strings \ {<<>>}) \cup DeliveredDirs
    /\ vmailbox = <<>>
    /\ vsafe = <<>>
    /\ vfound = "none"

\* lines 407-414: the directory is decoded into the combo box and selected
refresh_mailbox ==
    /\ vstage = "listed"
    /\ vmailbox' = mailbox_name(vdir)
    /\ vstage' = "selected"
    /\ UNCHANGED <<vdir, vsafe, vfound>>
    /\ UNCHANGED besideViewer

\* lines 425-433: the entry is encoded and the directory of that name looked
\* for; an empty entry ends load_emails at once
load_emails ==
    /\ vstage = "selected"
    /\ IF vmailbox = <<>>
       THEN UNCHANGED <<vsafe, vfound>>
       ELSE /\ vsafe' = mailbox_safe(vmailbox)
            /\ vfound' = IF mailbox_safe(vmailbox) = vdir THEN "yes" ELSE "no"
    /\ vstage' = "resolved"
    /\ UNCHANGED <<vdir, vmailbox>>
    /\ UNCHANGED besideViewer

ViewerNext == refresh_mailbox \/ load_emails

ViewerSpec == ViewerInit /\ [][ViewerNext]_vars

-----------------------------------------------------------------------------
\* Notions the properties below are stated with.

Accepted == "250 Message accepted for delivery"
Rejected == "550 Error processing message"

invalid_email(r) == ~validate_email(r)

\* the valid entries of the recipient list of h, in list order, duplicates kept
ValidRcpts(h) == SelectSeq(envelope[h].rcpt_tos, validate_email)

AllInvalid(env) == \A i \in 1..Len(env.rcpt_tos) : ~validate_email(env.rcpt_tos[i])

NoDuplicateRcpts(h) ==
    \A i, j \in 1..Len(envelope[h].rcpt_tos) :
        i # j => envelope[h].rcpt_tos[i] # envelope[h].rcpt_tos[j]

\* the recipients of the completed deliveries of h, in order
DeliveredTo(h) == [i \in 1..Len(savedLog[h]) |-> savedLog[h][i].to]

\* the completed deliveries into mailbox directory d
DeliveriesInto(d) ==
    {<<h, i>> \in Handlers \X (1..MaxRcpts) :
        i <= Len(savedLog[h]) /\ savedLog[h][i].dir = d}

FilesOf(d, kind) == {p \in listing : p.dir = d /\ p.name.kind = kind}

\* no invocation is running, and none was stopped by a storage error
Settled == \A h \in Handlers : pc[h] \in {"idle", "done"} /\ error[h] # "storage"

\* invocation h took the step
Stepped(h) == pc'[h] # pc[h] \/ idx'[h] # idx[h]

-----------------------------------------------------------------------------
\* C1: when deliveries of distinct messages to one mailbox have all completed
\* (each message names the mailbox once, no storage error), the mailbox holds as
\* many content files and as many metadata files as there were deliveries, and
\* every delivery's content file still holds that delivery's bytes.
C1_DistinctFilesPerDelivery ==
    (Settled /\ \A h \in Handlers : NoDuplicateRcpts(h)) =>
        \A d \in DirNames :
            /\ Cardinality(FilesOf(d, "email")) = Cardinality(DeliveriesInto(d))
            /\ Cardinality(FilesOf(d, "metadata")) = Cardinality(DeliveriesInto(d))
            /\ \A hi \in DeliveriesInto(d) :
                bytes[path(d, savedLog[hi[1]][hi[2]].filename)]
                    = <<envelope[hi[1]].content>>

\* C2: a handle_DATA that ran to its end without an exception, on an envelope
\* with at least one valid recipient entry, made one delivery record per valid
\* entry (duplicates counted), with pairwise distinct filenames within a
\* mailbox, and returned the accepting status.
C2_OneRecordPerValidRecipient ==
    \A h \in Handlers :
        (pc[h] = "done" /\ error[h] = "none" /\ Len(ValidRcpts(h)) >= 1) =>
            /\ status[h] = Accepted
            /\ Len(savedLog[h]) = Len(ValidRcpts(h))
            /\ \A i, j \in 1..Len(savedLog[h]) :
                (i # j /\ savedLog[h][i].dir = savedLog[h][j].dir)
                    => savedLog[h][i].filename # savedLog[h][j].filename

\* C3 (as claimed): an envelope whose recipients all fail validation is
\* rejected, and nothing is delivered.
C3_RejectsNoValidRecipients ==
    \A h \in Handlers :
        (pc[h] = "done" /\ AllInvalid(envelope[h])) =>
            status[h] = Rejected /\ savedLog[h] = <<>>

\* C3 (amended): no step of a handle_DATA whose recipients all fail validation
\* creates or changes a mailbox directory or a file, and it returns the
\* accepting status whenever the content parsed (the rejecting one otherwise).
C3_AcceptsAndWritesNothing ==
    [][\A h \in Handlers :
        (Stepped(h) /\ AllInvalid(envelope'[h])) =>
            /\ dirs' = dirs /\ listing' = listing /\ bytes' = bytes
            /\ savedLog'[h] = <<>>
            /\ pc'[h] = "done" =>
                status'[h] = IF envelope'[h].content.parses THEN Accepted ELSE Rejected
      ]_vars

\* an all-invalid, non-empty recipient list was processed to the end
C3_Witness ==
    \E h \in Handlers :
        /\ pc[h] = "done"
        /\ envelope[h].content.parses
        /\ envelope[h].rcpt_tos = <<RcptBad, RcptBad>>
        /\ invalidLog[h] = <<RcptBad, RcptBad>>
        /\ status[h] = Accepted

\* C4: an invalid recipient never stops the loop: at every point of a
\* handle_DATA whose content parsed, the deliveries made are exactly the valid
\* entries among the recipients passed so far and the logged failures exactly
\* the invalid ones; a run without exception passes the whole list and returns
\* the accepting status; the rejecting status comes with a storage exception only.
C4_InvalidRecipientDoesNotStop ==
    \A h \in Handlers :
        (pc[h] # "idle" /\ error[h] # "parse") =>
            /\ idx[h] \in 1..(Len(envelope[h].rcpt_tos) + 1)
            /\ DeliveredTo(h)
                = SelectSeq(SubSeq(envelope[h].rcpt_tos, 1, idx[h] - 1), validate_email)
            /\ invalidLog[h]
                = SelectSeq(SubSeq(envelope[h].rcpt_tos, 1, idx[h] - 1), invalid_email)
            /\ (pc[h] = "done" /\ error[h] = "none") =>
                (idx[h] = Len(envelope[h].rcpt_tos) + 1 /\ status[h] = Accepted)
            /\ status[h] = Rejected => error[h] = "storage"

\* one message with the invalid recipient last, one with it first, both
\* processed: one delivery and one logged failure each, both accepted
C4_Witness ==
    \E h, g \in Handlers :
        /\ pc[h] = "done" /\ pc[g] = "done"
        /\ envelope[h].rcpt_tos = <<RcptB, RcptBad>>
        /\ envelope[g].rcpt_tos = <<RcptBad, RcptB>>
        /\ DeliveredTo(h) = <<RcptB>> /\ invalidLog[h] = <<RcptBad>>
        /\ DeliveredTo(g) = <<RcptB>> /\ invalidLog[g] = <<RcptBad>>
        /\ status[h] = Accepted /\ status[g] = Accepted

\* C5: a storage failure at one recipient is confined to it: the handle_DATA
\* it stopped has delivered to every other valid entry of its recipient list.
C5_StorageFailureConfined ==
    \A h \in Handlers :
        (pc[h] = "done" /\ error[h] = "storage") =>
            Len(savedLog[h]) = Len(ValidRcpts(h)) - 1

\* C6: the returned status depends on parsing alone: accepting exactly when
\* the content parsed.
C6_StatusDependsOnParsingOnly ==
    \A h \in Handlers :
        pc[h] = "done" => (status[h] = Accepted <=> envelope[h].content.parses)

\* C7: decoding the mailbox id of a valid address gives the address back.
C7_RoundTrip == cstage = "decoded" => cback = caddr

\* C8: a valid address without '_' shares its mailbox id with no other valid
\* address without '_'.
C8_NoCollisions ==
    (cstage = "encoded" /\ ~contains("_", caddr)) =>
        \A b \in Strings :
            (b # caddr /\ ~contains("_", b) /\ validate_email(b))
                => recipient_safe(b) # cid

\* C9: validate_email accepts exactly the strings of the EmailAddress contract.
C9_ValidateMatchesContract ==
    cstage # "input" => (cvalid <=> EmailAddressContract(caddr))

\* C10: the content file and the metadata file of a completed delivery are
\* never changed or removed by a later step.
C10_WrittenFilesNeverChange ==
    [][\A h \in Handlers : \A i \in 1..Len(savedLog[h]) :
        LET eml == path(savedLog[h][i].dir, savedLog[h][i].filename)
            meta == path(savedLog[h][i].dir,
                         metadata_filename(savedLog[h][i].filename.stamp))
        IN  /\ eml \in listing' /\ bytes'[eml] = bytes[eml]
            /\ meta \in listing' /\ bytes'[meta] = bytes[meta]
      ]_vars

\* the same files in every order os.listdir may return them
Reorderings(d) ==
    {[i \in 1..Len(d) |-> d[f[i]]] :
        f \in {g \in [1..Len(d) -> 1..Len(d)] :
                \A i, j \in 1..Len(d) : i # j => g[i] # g[j]}}

\* the dicts load_emails collects from a listing without unparsable files
loaded_from(d) ==
    LET json_files == SelectSeq(d, LAMBDA f : ends_with_json(f.name))
    IN  [i \in 1..Len(json_files) |-> json_files[i].dict]

\* the rows load_emails shows for a listing
rows_for(d) ==
    [i \in 1..Len(loaded_from(d)) |-> tree_row(sort_newest_first(loaded_from(d))[i])]

\* C11: the rows shown are in non-increasing order of timestamp, and they are
\* the same rows in the same order whatever order the directory was listed in
\* (ties being settled by the file name, not by the listing).
C11_OrderIndependentOfListing ==
    rstage = "shown" =>
        /\ \A i \in 1..(Len(rows) - 1) : ~str_lt(rows[i].timestamp, rows[i + 1].timestamp)
        /\ \A other \in Reorderings(rdir) : rows_for(other) = rows

\* C12: listing never fails, and the rows shown are as many as the files named
\* metadata_<timestamp>.json: no other file adds a row.
C12_IgnoresNonMetadataFiles ==
    /\ rstage # "failed"
    /\ rstage = "shown" =>
        Len(rows) = Cardinality({i \in 1..Len(rdir) : is_metadata_name(rdir[i].name)})

-----------------------------------------------------------------------------
\* Notions for the outbound path.

\* the addresses of a call in the order send_email looks at them
addresses == <<sender>> \o recipients

invalid_positions == {i \in 1..Len(addresses) : ~validate_email(addresses[i])}

first_invalid == addresses[CHOOSE i \in invalid_positions : \A j \in invalid_positions : i <= j]

\* the parts of the files among the first n paths given that exist
parts_of_existing(n) ==
    LET existing == SelectSeq(SubSeq(attachments, 1, n), os_path_exists)
    IN  [i \in 1..Len(existing) |-> file_part(existing[i])]

\* the parts of the files among the paths given that can be read
parts_of_readable ==
    LET readable == SelectSeq(attachments, open_succeeds)
    IN  [i \in 1..Len(readable) |-> file_part(readable[i])]

\* C13: when some address of a call is invalid, no message is composed, no
\* attachment is looked at or read and no transport call is made, and the call
\* ends returning False on a ValueError naming the first invalid address, the
\* sender coming before the recipients and these in list order.
C13_ValidatedBeforeAnythingElse ==
    (spc # "off" /\ invalid_positions # {}) =>
        /\ msg = <<>>
        /\ reads = <<>>
        /\ warnings = <<>>
        /\ transports = 0
        /\ spc = "done" =>
            /\ result = "False"
            /\ raised = [kind |-> "ValueError", value |-> first_invalid]

C13_Witness ==
    /\ spc = "done"
    /\ validate_email(sender)
    /\ Len(recipients) = 2
    /\ validate_email(recipients[1])
    /\ ~validate_email(recipients[2])
    /\ attachments # <<>>
    /\ raised.value = recipients[2]

\* C14: a call with valid addresses always gets to the transport, with a
\* message made of the body and the readable attachments, every other path
\* given being recorded in a warning.
C14_UnreadableAttachmentSkipped ==
    (spc = "done" /\ invalid_positions = {}) =>
        /\ transports = 1
        /\ msg = <<body_part>> \o parts_of_readable
        /\ Len(warnings) = Len(attachments) - Len(parts_of_readable)

\* C15: a call never ends with an exception, makes at most one transport
\* call, returns True exactly when that call succeeded and False otherwise.
C15_NeverRaisesOneAttempt ==
    /\ transports <= 1
    /\ result # "raised"
    /\ spc = "done" =>
        /\ result \in {"True", "False"}
        /\ (result = "True") <=> (transports = 1 /\ outcome = "ok")
        /\ (result = "False") <=> (raised # NoError)

C15_Witness ==
    /\ spc = "done"
    /\ transports = 1
    /\ outcome = "OSError"
    /\ result = "False"

\* C18: a message under composition or composed is the body part followed by
\* the parts of the existing files among the paths gone through so far, in the
\* order the paths were given.
C18_BodyFirstThenAttachmentsInOrder ==
    msg # <<>> =>
        /\ msg[1] = body_part
        /\ msg = <<body_part>> \o parts_of_existing(apos - 1)
        /\ \A i \in 2..Len(msg) : msg[i].type = "application/octet-stream"

C18_Witness ==
    /\ spc = "done"
    /\ result = "True"
    /\ attachments = <<PathB, PathMissing, PathA>>
    /\ Len(msg) = 3

-----------------------------------------------------------------------------
\* Notions for the write order and the metadata records.

\* the metadata files that hold a record
WrittenMetadata == {p \in listing : p.name.kind = "metadata" /\ bytes[p] # <<>>}

\* the subject handle_DATA extracts from a parsed message (line 67)
parsed_subject(c) == IF c.subject = "" THEN "No Subject" ELSE c.subject

\* C16: every metadata file that holds a record names a content file present
\* in the same directory, which holds the whole message the record describes.
C16_MetadataNamesCompleteContent ==
    \A p \in WrittenMetadata :
        LET m == bytes[p][1]
            c == path(p.dir, m.filename)
        IN  /\ c \in listing
            /\ bytes[c] # <<>>
            /\ parsed_subject(bytes[c][1]) = m.subject

\* C17: as long as no file-system call fails for an outside reason, no delivery
\* fails: in particular not one that found the directory missing and creates
\* it after another delivery did.
C17_ConcurrentFirstUseSucceeds ==
    faults = 0 => \A h \in Handlers : error[h] # "storage"

\* C19: every metadata record in a mailbox lies in the directory named by the
\* encoding of its 'to', names the content file with the time stamp of its own
\* file name, and carries the envelope sender, one recipient and the parsed
\* subject of one message handled.
C19_MetadataMatchesDelivery ==
    \A p \in WrittenMetadata :
        LET m == bytes[p][1]
        IN  /\ recipient_safe(m.to) = p.dir
            /\ validate_email(m.to)
            /\ m.filename = email_filename(p.name.stamp)
            /\ path(p.dir, m.filename) \in listing
            /\ \E h \in Handlers :
                /\ m.from = envelope[h].mail_from
                /\ m.from # envelope[h].content.From
                /\ \E i \in 1..Len(envelope[h].rcpt_tos) : envelope[h].rcpt_tos[i] = m.to
                /\ m.subject = parsed_subject(envelope[h].content)

C19_Witness ==
    \E p \in WrittenMetadata :
        /\ bytes[p][1].subject = "No Subject"
        /\ bytes[p][1].to = RcptC
        /\ Cardinality(WrittenMetadata) >= 2

-----------------------------------------------------------------------------
\* Notions for the server life cycle.

\* the GUI thread is between two clicks
BetweenClicks == gpc = "idle"

\* no run_server thread is on its way to start a controller
NoStartPending == \A t \in Threads : tpc[t] \notin {"handler", "start"}

\* C20: between two clicks, while the window shows "Server Stopped" no
\* controller runs, and while it shows "Server Running", with no run_server
\* thread still about to start one, a controller runs.
C20_DisplayedStateMatchesController ==
    /\ (BetweenClicks /\ server_status = StoppedText) =>
            \A c \in Threads : ctrl[c] # "running"
    /\ (BetweenClicks /\ server_status = RunningText /\ NoStartPending) =>
            /\ server_running
            /\ \E c \in Threads : ctrl[c] = "running"

-----------------------------------------------------------------------------
\* Notions for the mailbox selection.

\* an address with a '_' in it, which decoding its directory does not give back
UnderscoreAddress == <<"_", "@", ".", "a">>

\* C21: for a listed directory whose name has no '@' and no '.', the name
\* load_emails computes from the entry shown is the name listed, and the
\* directory is found.
C21_SelectionResolvesToListedDirectory ==
    (vstage = "resolved" /\ ~contains("@", vdir) /\ ~contains(".", vdir)) =>
        /\ vsafe = vdir
        /\ vfound = "yes"
        /\ recipient_safe(mailbox_name(vdir)) = vdir

C21_Witness ==
    /\ vstage = "resolved"
    /\ validate_email(UnderscoreAddress)
    /\ vdir = recipient_safe(UnderscoreAddress)
    /\ vmailbox # UnderscoreAddress
    /\ vfound = "yes"

=============================================================================
